---- MODULE Spec2Model ----
(***************************************************************************)
(* Model of src/ml/gnn_model.py: the command-line entry point main(), the  *)
(* GNNPatternDetector wrapper (prepare_graph_data, train,                  *)
(* compute_contrastive_loss, infer, generate_embeddings) and the parts of  *)
(* UserBehaviorGNN the wrapper relies on.                                  *)
(*                                                                         *)
(* Numeric tensors are abstracted to what the control flow reads: the      *)
(* number of rows a node type has, the width of its feature rows, and      *)
(* whether a loss tensor carries a gradient function.  The outputs of the  *)
(* learned Correlation Head are an input of the model (env.head): one      *)
(* score per (music row, event row), as an integer number of 1/131072.     *)
(* A UserBehaviorGNN with one message-passing layer or more cannot be      *)
(* constructed (ConstructorRaises), so forward() only ever runs with no    *)
(* such layer; a failure of the numeric library in a training step is an   *)
(* input as well (env.fail_epoch).                                         *)
(***************************************************************************)
EXTENDS Integers, Sequences, FiniteSets, TLC

VARIABLES
    argv,        \* the command line: <<program>> \o <<command>> \o <<blob>>
    pc,          \* position of the process in main() / train()
    detector,    \* GNNPatternDetector: [model_path, embeddings_init, optimizer]
    files,       \* file system: path -> <<>> (absent) or <<checkpoint>>
    dirs,        \* file system: the directories that exist
    files0,      \* the file system's files when the process started
    graph,       \* train(): the HeteroData built by prepare_graph_data
    epoch,       \* train(): loop variable of "for epoch in range(epochs)"
    loss,        \* train(): the loss tensor of the current step
    metrics,     \* train(): metrics['losses']
    saves,       \* number of torch.save calls made by this process
    phases,      \* train(): the phases entered so far, in order
    env,         \* what the libraries decide: [fail_epoch, head]
    result,      \* the dict main() is about to print, <<>> before
    exc,         \* the exception caught by main()'s except clause, <<>> if none
    stdout,      \* documents printed to standard output, in order
    stderr,      \* documents printed to standard error, in order
    exit_code    \* -1 while running, else the process's exit status

vars == <<argv, pc, detector, files, dirs, files0, graph, epoch, loss, metrics,
          saves, phases, env, result, exc, stdout, stderr, exit_code>>

-----------------------------------------------------------------------------
(* Bounds of the model.                                                    *)

MaxNodes == 3
MaxEpochs == 2
MaxPairNodes == 4
MaxEdges == 2

(* Program constants.  A path is the sequence of its components; a score   *)
(* (correlation, min_confidence) is an integer number of 1/ScoreScale, a   *)
(* binary fraction, which floating point holds and multiplies by 100       *)
(* without error.                                                          *)

DefaultEpochs == 100
DefaultTopK == 10
ScoreScale == 131072
DefaultMinConfidence == 98304
DefaultInputDim == 3
HiddenChannels == 128
NumLayers == 4
ProgressEvery == 10
Float32Exact == 16777216

DefaultModelPath == <<"models", "gnn_pattern_detector.pth">>

-----------------------------------------------------------------------------
(* Small helpers.                                                          *)

Min(a, b) == IF a <= b THEN a ELSE b

Max(a, b) == IF a >= b THEN a ELSE b

Range(s) == {s[k] : k \in DOMAIN s}

SeqsUpTo(S, n) == UNION {[1..k -> S] : k \in 0..n}

-----------------------------------------------------------------------------
(* prepare_graph_data: JSON graph -> HeteroData.                           *)
(*                                                                         *)
(* A payload is [nodes |-> Seq([id, type, features]),                      *)
(*               edges |-> Seq([source, target, type])].                   *)
(* HeteroData is [node_types, x, edge_types, edge_index]: node_types and   *)
(* edge_types list the stores in insertion order, x[t] is the feature      *)
(* matrix of type t (a sequence of rows), edge_index[et] is the 2-row      *)
(* index matrix of edge type et, <<row0, row1>>.                           *)

GroupNodePrepend(acc, node) ==
    LET node_type == node.type
        seen      == node_type \in DOMAIN acc.nodes_by_type
        prev      == IF seen THEN acc.nodes_by_type[node_type] ELSE <<>>
        local_idx == Len(prev)
    IN [nodes_by_type  |-> (node_type :> (<<node.features>> \o prev)) @@ acc.nodes_by_type,
        type_order     |-> IF seen THEN acc.type_order ELSE Append(acc.type_order, node_type),
        node_id_to_idx |-> (node.id :> <<node_type, local_idx>>) @@ acc.node_id_to_idx]

\* lines 171-178: one iteration of "for i, node in enumerate(nodes)"
GroupNode(acc, node) ==
    LET node_type == node.type
        seen      == node_type \in DOMAIN acc.nodes_by_type
        prev      == IF seen THEN acc.nodes_by_type[node_type] ELSE <<>>
        local_idx == Len(prev)
    IN [nodes_by_type  |-> (node_type :> Append(prev, node.features)) @@ acc.nodes_by_type,
        type_order     |-> IF seen THEN acc.type_order ELSE Append(acc.type_order, node_type),
        node_id_to_idx |-> (node.id :> <<node_type, local_idx>>) @@ acc.node_id_to_idx]

RECURSIVE GroupNodes(_, _, _)
GroupNodes(nodes, i, acc) ==
    IF i > Len(nodes) THEN acc
    ELSE GroupNodes(nodes, i + 1, GroupNode(acc, nodes[i]))

\* line 182: torch.tensor(features) accepts only rows of one length
Rectangular(rows) == \A a, b \in DOMAIN rows : Len(rows[a]) = Len(rows[b])

\* The spacing of 32-bit floats around the integer v >= 0: 1 below 2^24, then
\* doubling with every further bit.
RECURSIVE Ulp32(_)
Ulp32(v) == IF v < Float32Exact THEN 1 ELSE 2 * Ulp32(v \div 2)

\* line 182: dtype=torch.float stores a feature as the nearest 32-bit float, a
\* tie going to the neighbour with the even mantissa.  Features are integers
\* >= 0 in this model.
Float32(v) ==
    LET u == Ulp32(v)
        q == v \div u
        r == v % u
    IN IF 2 * r < u THEN q * u
       ELSE IF 2 * r > u THEN (q + 1) * u
       ELSE IF q % 2 = 0 THEN q * u ELSE (q + 1) * u

\* line 182: the feature matrix of one node type
FeatureTensor(rows) == [k \in DOMAIN rows |-> [d \in DOMAIN rows[k] |-> Float32(rows[k][d])]]

GroupEdgeLenient(acc, edge, node_id_to_idx) ==
    IF edge.source \notin DOMAIN node_id_to_idx \/ edge.target \notin DOMAIN node_id_to_idx
    THEN acc
    ELSE LET src       == node_id_to_idx[edge.source]
             tgt       == node_id_to_idx[edge.target]
             edge_type == <<src[1], edge.type, tgt[1]>>
             seen      == edge_type \in DOMAIN acc.edges_by_type
             prev      == IF seen THEN acc.edges_by_type[edge_type] ELSE <<>>
         IN [ok            |-> TRUE,
             edges_by_type |-> (edge_type :> Append(prev, <<src[2], tgt[2]>>))
                                   @@ acc.edges_by_type,
             type_order    |-> IF seen THEN acc.type_order
                               ELSE Append(acc.type_order, edge_type)]

\* lines 186-194: one iteration of "for edge in graph_json['edges']";
\* a lookup of an id that node_id_to_idx does not hold raises KeyError
GroupEdge(acc, edge, node_id_to_idx) ==
    IF ~acc.ok THEN acc
    ELSE IF edge.source \notin DOMAIN node_id_to_idx
              \/ edge.target \notin DOMAIN node_id_to_idx
    THEN [acc EXCEPT !.ok = FALSE]
    ELSE LET src       == node_id_to_idx[edge.source]
             tgt       == node_id_to_idx[edge.target]
             edge_type == <<src[1], edge.type, tgt[1]>>
             seen      == edge_type \in DOMAIN acc.edges_by_type
             prev      == IF seen THEN acc.edges_by_type[edge_type] ELSE <<>>
         IN [ok            |-> TRUE,
             edges_by_type |-> (edge_type :> Append(prev, <<src[2], tgt[2]>>))
                                   @@ acc.edges_by_type,
             type_order    |-> IF seen THEN acc.type_order
                               ELSE Append(acc.type_order, edge_type)]

RECURSIVE GroupEdges(_, _, _, _)
GroupEdges(edges, i, acc, node_id_to_idx) ==
    IF i > Len(edges) THEN acc
    ELSE GroupEdges(edges, i + 1, GroupEdge(acc, edges[i], node_id_to_idx), node_id_to_idx)

TransposeSwapped(edge_list) ==
    <<[k \in DOMAIN edge_list |-> edge_list[k][2]],
      [k \in DOMAIN edge_list |-> edge_list[k][1]]>>

\* lines 198-201: torch.tensor(edge_list).t(): rows become columns
Transpose(edge_list) ==
    <<[k \in DOMAIN edge_list |-> edge_list[k][1]],
      [k \in DOMAIN edge_list |-> edge_list[k][2]]>>

EmptyData == [node_types |-> <<>>, x |-> <<>>, edge_types |-> <<>>, edge_index |-> <<>>]

\* The whole function.  [ok |-> FALSE, error |-> e] stands for "raises e".
prepare_graph_data(graph_json) ==
    LET ng == GroupNodes(graph_json.nodes, 1,
                  [nodes_by_type |-> <<>>, type_order |-> <<>>, node_id_to_idx |-> <<>>])
        eg == GroupEdges(graph_json.edges, 1,
                  [ok |-> TRUE, edges_by_type |-> <<>>, type_order |-> <<>>],
                  ng.node_id_to_idx)
    IN IF \E t \in DOMAIN ng.nodes_by_type : ~Rectangular(ng.nodes_by_type[t])
       THEN [ok |-> FALSE, error |-> "ValueError", data |-> EmptyData]
       ELSE IF ~eg.ok
       THEN [ok |-> FALSE, error |-> "KeyError", data |-> EmptyData]
       ELSE [ok |-> TRUE, error |-> "",
             data |-> [node_types |-> ng.type_order,
                       x          |-> [t \in DOMAIN ng.nodes_by_type |->
                                          FeatureTensor(ng.nodes_by_type[t])],
                       edge_types |-> eg.type_order,
                       edge_index |-> [et \in DOMAIN eg.edges_by_type |->
                                          Transpose(eg.edges_by_type[et])]]]

-----------------------------------------------------------------------------
(* UserBehaviorGNN.                                                        *)

\* lines 61-70: UserBehaviorGNN.__init__ makes num_layers HGTConv layers, each
\* with metadata=None and a dropout keyword.  HGTConv hands the keywords it does
\* not know to MessagePassing.__init__, which takes no dropout, and it reads
\* metadata[0]: making the first layer raises TypeError.  With no layer to make
\* (range(num_layers) is empty) the constructor returns.
ConstructorRaises(num_layers) == num_layers >= 1

\* lines 84-92: one input projection per node type, of the recorded input
\* width or of the default width
initialize_embeddings(node_types, feature_dims) ==
    [t \in Range(node_types) |->
        IF t \in DOMAIN feature_dims THEN feature_dims[t] ELSE DefaultInputDim]

Width(rows) == IF rows = <<>> THEN 0 ELSE Len(rows[1])

\* line 112: the node types forward() keeps
EmbeddedTypes(x_dict, node_embeddings) == DOMAIN x_dict \cap DOMAIN node_embeddings

\* lines 109-122: forward().  The result maps each kept node type to the number
\* of rows of its embedding matrix; a Linear layer applied to rows of another
\* width than its own raises RuntimeError.  self.hgt_layers is empty in every
\* model that exists (ConstructorRaises), so the loop of lines 116-120 has no
\* iteration and the projections are the result.
forward(x_dict, node_embeddings) ==
    LET kept == EmbeddedTypes(x_dict, node_embeddings)
    IN IF \E t \in kept : Width(x_dict[t]) # node_embeddings[t]
       THEN [ok |-> FALSE, error |-> "RuntimeError", embeddings |-> <<>>]
       ELSE [ok |-> TRUE, error |-> "",
             embeddings |-> [t \in kept |-> Len(x_dict[t])]]

-----------------------------------------------------------------------------
(* GNNPatternDetector.compute_contrastive_loss.                            *)

\* line 290: 'PRECEDES' in key[1], on the relation labels the model uses
HasPRECEDES(relation) == relation \in {"PRECEDES", "STRICTLY_PRECEDES"}

FindLastPrecedesKey(edge_types, i) ==
    LET ks == {k \in i..Len(edge_types) : HasPRECEDES(edge_types[k][2])}
    IN IF ks = {} THEN <<>>
       ELSE <<edge_types[CHOOSE k \in ks : \A j \in ks : j <= k]>>

\* lines 288-292: the first key, in the dict's order, whose relation matches
RECURSIVE FindPrecedesKey(_, _)
FindPrecedesKey(edge_types, i) ==
    IF i > Len(edge_types) THEN <<>>
    ELSE IF HasPRECEDES(edge_types[i][2]) THEN <<edge_types[i]>>
    ELSE FindPrecedesKey(edge_types, i + 1)

\* lines 285-324.  The loss tensor is [requires_grad, value, key, positives,
\* negatives]: the constant torch.tensor(0.0) of line 285 has no gradient
\* function; the loss of line 322 is computed from the embeddings and has one.
\* positives and negatives are the (source row, target row) pairs whose
\* similarities enter the loss, key the edge type they were taken from.
ZeroLoss ==
    [requires_grad |-> FALSE, value |-> "0.0", key |-> <<>>,
     positives |-> <<>>, negatives |-> <<>>]

\* lines 311-317: what torch.randint may return, one target row per edge of the
\* selected type, each in 0 .. size(0) - 1 of the target type's embeddings;
\* the empty sample where the function returns before line 311
NegativeSamples(edge_types, edge_index_dict, embeddings) ==
    LET precedes_key == FindPrecedesKey(edge_types, 1)
    IN IF precedes_key = <<>> THEN {<<>>}
       ELSE IF Len(edge_index_dict[precedes_key[1]][1]) = 0 THEN {<<>>}
       ELSE [1..Len(edge_index_dict[precedes_key[1]][1]) ->
                0..(embeddings[precedes_key[1][3]] - 1)]

compute_contrastive_loss(edge_types, edge_index_dict, neg_target_indices) ==
    LET precedes_key == FindPrecedesKey(edge_types, 1)
    IN IF precedes_key = <<>> THEN ZeroLoss
       ELSE IF Len(edge_index_dict[precedes_key[1]][1]) = 0 THEN ZeroLoss
       ELSE LET edge_index == edge_index_dict[precedes_key[1]]
            IN [requires_grad |-> TRUE, value |-> "float", key |-> precedes_key,
                positives |-> [k \in DOMAIN edge_index[1] |->
                                  <<edge_index[1][k], edge_index[2][k]>>],
                negatives |-> [k \in DOMAIN edge_index[1] |->
                                  <<edge_index[1][k], neg_target_indices[k]>>]]

\* line 257: loss.backward() raises RuntimeError on a tensor that does not
\* require grad and has no grad_fn
BackwardRaises(l) == ~l.requires_grad

-----------------------------------------------------------------------------
(* The file system and the checkpoint.                                     *)

\* os.path.dirname
Dirname(path) == SubSeq(path, 1, Len(path) - 1)

\* line 266: os.makedirs('') raises FileNotFoundError
MakedirsRaises(dir) == dir = <<>>

\* lines 267-273: the bundle torch.save writes
Checkpoint(data, hidden_channels, num_layers) ==
    [metadata        |-> <<data.node_types, data.edge_types>>,
     feature_dims    |-> [t \in Range(data.node_types) |-> Width(data.x[t])],
     hidden_channels |-> hidden_channels,
     num_layers      |-> num_layers]

LoopDoneEarly(e, epochs) == e >= Min(1, epochs)

\* line 243: "for epoch in range(epochs)" is over
LoopDone(e, epochs) == e >= epochs

-----------------------------------------------------------------------------
(* GNNPatternDetector.infer and generate_embeddings.                       *)

NoOutput == [patterns |-> <<>>, embeddings |-> <<>>, nodeIds |-> <<>>]

\* "raises e", the detector's model having the projections in model
Raise(e, model) == [ok |-> FALSE, error |-> e, model |-> model, out |-> NoOutput]

\* lines 335-357 and 392-414, shared by infer and generate_embeddings: load the
\* checkpoint, rebuild the model, build the graph, run the forward pass.
\* torch.load raises FileNotFoundError when no file is at the path; reading
\* data[key].x (data[key].edge_index) of a store the graph does not have
\* raises AttributeError.
\* lines 353-354: some store the checkpoint names is not in the graph
MissingStoreStrict(node_types, edge_types, data) ==
    \/ \E k \in DOMAIN node_types : node_types[k] \notin DOMAIN data.x
    \/ \E k \in DOMAIN edge_types : edge_types[k] \notin DOMAIN data.edge_index
    \/ \E t \in DOMAIN data.x : t \notin Range(node_types)

MissingStore(node_types, edge_types, data) ==
    \/ \E k \in DOMAIN node_types : node_types[k] \notin DOMAIN data.x
    \/ \E k \in DOMAIN edge_types : edge_types[k] \notin DOMAIN data.edge_index

\* The result's model is what self.model holds afterwards: the projections of
\* the checkpoint's node types once the model is rebuilt (lines 338-343,
\* 395-400), the old value when torch.load or the constructor raised.
\* load_state_dict (lines 344, 401) is given the state of a model of the same
\* node types, input widths and sizes, which it accepts.
LoadAndForward(graph_json, model_path, fs, old_model) ==
    IF fs[model_path] = <<>>
    THEN [ok |-> FALSE, error |-> "FileNotFoundError", model |-> old_model,
          node_types |-> <<>>, embeddings |-> <<>>]
    ELSE IF ConstructorRaises(fs[model_path][1].num_layers)
    THEN [ok |-> FALSE, error |-> "TypeError", model |-> old_model,
          node_types |-> <<>>, embeddings |-> <<>>]
    ELSE
    LET checkpoint      == fs[model_path][1]
        node_types      == checkpoint.metadata[1]
        edge_types      == checkpoint.metadata[2]
        node_embeddings == initialize_embeddings(node_types, checkpoint.feature_dims)
        prep            == prepare_graph_data(graph_json)
        data            == prep.data
    IN IF ~prep.ok
       THEN [ok |-> FALSE, error |-> prep.error, model |-> node_embeddings,
             node_types |-> <<>>, embeddings |-> <<>>]
       ELSE IF MissingStore(node_types, edge_types, data)
       THEN [ok |-> FALSE, error |-> "AttributeError", model |-> node_embeddings,
             node_types |-> <<>>, embeddings |-> <<>>]
       ELSE LET x_dict == [t \in Range(node_types) |-> data.x[t]]
                fwd    == forward(x_dict, node_embeddings)
            IN [ok |-> fwd.ok, error |-> fwd.error, model |-> node_embeddings,
                node_types |-> node_types, embeddings |-> fwd.embeddings]

\* Python's round(x, n) rounds the exact binary value of the float x: to the
\* nearest, and a value exactly half-way to the even neighbour.
\* RoundDiv(c, d) is the exact quotient c / d so rounded, for c >= 0 and d > 0.
RoundDiv(c, d) ==
    LET q == c \div d
        r == c % d
    IN IF 2 * r < d THEN q
       ELSE IF 2 * r > d THEN q + 1
       ELSE IF q % 2 = 0 THEN q ELSE q + 1

\* line 379: round(correlation * 100, 2).  A correlation is a number of
\* 1/ScoreScale, so correlation * 100 is exact; a confidence score is a number
\* of 1/100 of a percent.
confidence_score(correlation) == RoundDiv(correlation * 100 * 100, ScoreScale)

QualifiesBelow(correlation, min_confidence) == correlation <= min_confidence

\* line 374: the threshold test
Qualifies(correlation, min_confidence) == correlation >= min_confidence

\* lines 375-381
Pattern(i, j, correlation) ==
    [pattern_type       |-> "temporal_music_before_event",
     music_activity_idx |-> i,
     calendar_event_idx |-> j,
     confidence_score   |-> confidence_score(correlation),
     correlation        |-> correlation]

ScanOrderShort(m, e) == [k \in 1..(m * (e - 1)) |-> <<(k - 1) \div (e - 1), (k - 1) % (e - 1)>>]

\* lines 367-368: the (i, j) of the nested loops, in the order they are visited
ScanOrder(m, e) == [k \in 1..(m * e) |-> <<(k - 1) \div e, (k - 1) % e>>]

\* lines 363-381: the patterns appended, in scan order
ScanPatterns(embeddings, head, min_confidence) ==
    IF "MusicActivity" \in DOMAIN embeddings /\ "CalendarEvent" \in DOMAIN embeddings
    THEN LET scan == ScanOrder(embeddings["MusicActivity"], embeddings["CalendarEvent"])
             all  == [k \in DOMAIN scan |-> Pattern(scan[k][1], scan[k][2], head[scan[k]])]
         IN SelectSeq(all, LAMBDA p : Qualifies(p.correlation, min_confidence))
    ELSE <<>>

SortsBeforeAscending(a, b) == a.confidence_score < b.confidence_score

\* sorted(..., reverse=True) compares keys with "comes before": a is placed
\* before b when a's key is greater
SortsBefore(a, b) == a.confidence_score > b.confidence_score

\* sorted() is stable: an element goes after every element that does not sort
\* after it
RECURSIVE InsertSorted(_, _)
InsertSorted(sorted, p) ==
    IF sorted = <<>> THEN <<p>>
    ELSE IF SortsBefore(p, sorted[1]) THEN <<p>> \o sorted
    ELSE <<sorted[1]>> \o InsertSorted(Tail(sorted), p)

RECURSIVE SortPatterns(_, _)
SortPatterns(patterns, n) ==
    IF n = 0 THEN <<>>
    ELSE InsertSorted(SortPatterns(patterns, n - 1), patterns[n])

SliceEnd(s, top_k) ==
    IF top_k >= 0 THEN SubSeq(s, Len(s) - Min(top_k, Len(s)) + 1, Len(s))
    ELSE SubSeq(s, 1, Max(Len(s) + top_k, 0))

\* line 384: the slice [:top_k]; a negative top_k drops that many from the end
Slice(s, top_k) ==
    IF top_k >= 0 THEN SubSeq(s, 1, Min(top_k, Len(s)))
    ELSE SubSeq(s, 1, Max(Len(s) + top_k, 0))

\* lines 360-386
DetectPatterns(embeddings, head, min_confidence, top_k) ==
    LET patterns == ScanPatterns(embeddings, head, min_confidence)
    IN Slice(SortPatterns(patterns, Len(patterns)), top_k)

\* lines 326-386
infer(graph_json, model_path, min_confidence, top_k, fs, head, old_model) ==
    LET lf == LoadAndForward(graph_json, model_path, fs, old_model)
    IN IF ~lf.ok THEN Raise(lf.error, lf.model)
       ELSE [ok |-> TRUE, error |-> "", model |-> lf.model,
             out |-> [NoOutput EXCEPT
                 !.patterns = DetectPatterns(lf.embeddings, head, min_confidence, top_k)]]

\* lines 420-427: the node ids, <<type, i>> standing for f"{type}_{i}"
RECURSIVE EmbedIds(_, _, _)
EmbedIds(node_types, k, embeddings) ==
    IF k > Len(node_types) THEN <<>>
    ELSE (IF node_types[k] \in DOMAIN embeddings
          THEN [i \in 1..embeddings[node_types[k]] |-> <<node_types[k], i - 1>>]
          ELSE <<>>)
         \o EmbedIds(node_types, k + 1, embeddings)

\* lines 420-423: embeddings_list; a row is [type, row], the row of that type's
\* embedding matrix it was copied from
RECURSIVE EmbedRows(_, _, _)
EmbedRows(node_types, k, embeddings) ==
    IF k > Len(node_types) THEN <<>>
    ELSE (IF node_types[k] \in DOMAIN embeddings
          THEN [i \in 1..embeddings[node_types[k]] |->
                   [type |-> node_types[k], row |-> i - 1]]
          ELSE <<>>)
         \o EmbedRows(node_types, k + 1, embeddings)

\* lines 388-432
generate_embeddings(graph_json, model_path, fs, old_model) ==
    LET lf == LoadAndForward(graph_json, model_path, fs, old_model)
    IN IF ~lf.ok THEN Raise(lf.error, lf.model)
       ELSE [ok |-> TRUE, error |-> "", model |-> lf.model,
             out |-> [NoOutput EXCEPT
                 !.embeddings = EmbedRows(lf.node_types, 1, lf.embeddings),
                 !.nodeIds    = EmbedIds(lf.node_types, 1, lf.embeddings)]]

-----------------------------------------------------------------------------
(* The inputs of an invocation.                                            *)

NodeTypes == {"MusicActivity", "CalendarEvent", "Other"}

Relations == {"PRECEDES", "RELATED"}

\* Correlation Head outputs: 0.09375 (9.375 %, half-way between 9.37 and 9.38),
\* 0.75 and 0.75 + 1/131072 (both 75.0 % when rounded)
Scores == {12288, 98304, 98305}

CustomPaths == {<<"gnn.pth">>}

ModelPaths == {DefaultModelPath} \cup CustomPaths

\* Node k of a payload has id k and a feature row of width w.
MkNodes(types, w) ==
    [k \in DOMAIN types |-> [id |-> k, type |-> types[k], features |-> [d \in 1..w |-> k]]]

MkEdge(s, t, r) == [source |-> s, target |-> t, type |-> r]

\* No edge, or one edge from node 1 to the last node or to the unknown id n + 1.
EdgeLists(n) == {<<>>} \cup {<<MkEdge(1, t, r)>> : t \in {n, n + 1}, r \in Relations}

Payloads ==
    UNION {{[nodes |-> MkNodes(ts, 1), edges |-> es] : es \in EdgeLists(Len(ts))} :
              ts \in SeqsUpTo(NodeTypes, MaxNodes)}

\* The graphs earlier train runs were given, whose checkpoints may be on disk.
OldGraph ==
    [nodes |-> MkNodes(<<"MusicActivity", "CalendarEvent">>, 1),
     edges |-> <<MkEdge(1, 2, "PRECEDES")>>]

GraphNoEdges ==
    [nodes |-> MkNodes(<<"MusicActivity", "CalendarEvent">>, 1), edges |-> <<>>]

GraphEventsOnly == [nodes |-> MkNodes(<<"CalendarEvent">>, 1), edges |-> <<>>]

GraphWide ==
    [nodes |-> MkNodes(<<"MusicActivity", "CalendarEvent">>, 2), edges |-> <<>>]

TrainedOn == {OldGraph, GraphNoEdges, GraphEventsOnly, GraphWide}

\* What train leaves on disk: only a model without message-passing layers can
\* be constructed and saved.
CheckpointOf(g) == Checkpoint(prepare_graph_data(g).data, HiddenChannels, 0)

Checkpoints == {CheckpointOf(g) : g \in TrainedOn}

\* A checkpoint file that records the default depth; train cannot have written
\* it, the file was put at the model path by other means.
DeepCheckpoint == Checkpoint(prepare_graph_data(OldGraph).data, HiddenChannels, NumLayers)

\* The JSON object of argv[2]: a dict with the keys in ks.
\* A caller's own model size: half the default width, no message-passing layer.
CustomHiddenChannels == HiddenChannels \div 2

Dict(ks, g, mp, n, mc, tk) ==
    [k \in ks |-> CASE k = "graphData"      -> g
                    [] k = "modelPath"      -> mp
                    [] k = "epochs"         -> n
                    [] k = "minConfidence"  -> mc
                    [] k = "topK"           -> tk
                    [] k = "hiddenChannels" -> CustomHiddenChannels
                    [] k = "numLayers"      -> 0]

PathKeys == {{}, {"modelPath"}}

SizeKeys == {{}, {"numLayers"}, {"hiddenChannels", "numLayers"}}

TrainData ==
    {Dict(ks \cup pk \cup sk, g, mp, n, 0, 0) :
        ks \in {{"graphData", "epochs"}}, pk \in PathKeys, sk \in SizeKeys,
        g \in Payloads, mp \in CustomPaths, n \in 0..MaxEpochs}
    \cup {Dict({"epochs"}, <<>>, <<>>, 1, 0, 0)}

InferData ==
    {Dict(ks, g, <<>>, 0, 0, 1) :
        ks \in {{"graphData"}, {"graphData", "minConfidence", "topK"}}, g \in Payloads}
    \cup {Dict({"topK"}, <<>>, <<>>, 0, 0, 1)}

EmbedData ==
    {Dict({"graphData"}, g, <<>>, 0, 0, 0) : g \in Payloads}
    \cup {Dict({}, <<>>, <<>>, 0, 0, 0)}

DataFor(c) ==
    CASE c = "train" -> TrainData
      [] c = "infer" -> InferData
      [] c = "embed" -> EmbedData
      [] OTHER       -> {Dict({}, <<>>, <<>>, 0, 0, 0)}

\* argv[2] as text: not JSON at all, a JSON array, or a JSON object
BadBlobs == {[kind |-> "invalid", value |-> <<>>], [kind |-> "array", value |-> <<>>]}

Blobs(c) == BadBlobs \cup {[kind |-> "object", value |-> d] : d \in DataFor(c)}

Commands == {"train", "infer", "embed", "check", "bogus"}

Argvs ==
    {<<"gnn_model.py">>, <<"gnn_model.py", "train">>}
    \cup UNION {{<<"gnn_model.py", c, b>> : b \in Blobs(c)} : c \in Commands}

\* dict.get
Get(d, k, default) == IF k \in DOMAIN d THEN d[k] ELSE default

IsObject(a) == Len(a) >= 3 /\ a[3].kind = "object"

PathOf(a) == IF IsObject(a) THEN Get(a[3].value, "modelPath", DefaultModelPath)
             ELSE DefaultModelPath

CountType(nodes, t) == Cardinality({k \in DOMAIN nodes : nodes[k].type = t})

\* What may be at the model path when the process starts.
Contents(a) ==
    IF ~IsObject(a) THEN {<<>>}
    ELSE CASE a[2] = "train"             ->
                  {<<>>, <<CheckpointOf(OldGraph)>>}
           [] a[2] \in {"infer", "embed"} ->
                  {<<>>, <<DeepCheckpoint>>} \cup {<<c>> : c \in Checkpoints}
           [] OTHER                      -> {<<>>}

\* The Correlation Head's output for every (music row, event row) of the graph,
\* when the model of the checkpoint at the model path can be rebuilt and has a
\* projection for both types.
PairsOf(nodes) ==
    (0..(CountType(nodes, "MusicActivity") - 1)) \X (0..(CountType(nodes, "CalendarEvent") - 1))

ScoresPairs(content) ==
    /\ content # <<>>
    /\ ~ConstructorRaises(content[1].num_layers)
    /\ {"MusicActivity", "CalendarEvent"} \subseteq Range(content[1].metadata[1])

Heads(a, content) ==
    IF IsObject(a) /\ a[2] = "infer" /\ "graphData" \in DOMAIN a[3].value
    THEN IF ScoresPairs(content)
         THEN [PairsOf(a[3].value["graphData"].nodes) -> Scores]
         ELSE {[p \in PairsOf(a[3].value["graphData"].nodes) |-> 0]}
    ELSE {<<>>}

\* The epoch (counted from 1) whose forward pass the numeric library fails, 0 for none.
FailEpochs(a) == IF IsObject(a) /\ a[2] = "train" THEN 0..MaxEpochs ELSE {0}

NoDetector == [model_path |-> <<>>, node_embeddings |-> <<>>, optimizer |-> FALSE]

\* line 240
NoMetrics == [losses |-> <<>>, accuracies |-> <<>>]

NoLoss ==
    [requires_grad |-> FALSE, value |-> "", key |-> <<>>,
     positives |-> <<>>, negatives |-> <<>>]

InitWith(a, content, fe, h) ==
    /\ argv = a
    /\ pc = "start"
    /\ detector = NoDetector
    /\ files = [q \in ModelPaths |-> IF q = PathOf(a) THEN content ELSE <<>>]
    /\ dirs = IF content # <<>> /\ Dirname(PathOf(a)) # <<>> THEN {Dirname(PathOf(a))} ELSE {}
    /\ files0 = files
    /\ graph = EmptyData
    /\ epoch = 0
    /\ loss = NoLoss
    /\ metrics = NoMetrics
    /\ saves = 0
    /\ phases = <<"Uninitialized">>
    /\ env = [fail_epoch |-> fe, head |-> h]
    /\ result = <<>>
    /\ exc = <<>>
    /\ stdout = <<>>
    /\ stderr = <<>>
    /\ exit_code = -1

Init ==
    \E a \in Argvs : \E content \in Contents(a), fe \in FailEpochs(a) : \E h \in Heads(a, content) :
        InitWith(a, content, fe, h)

-----------------------------------------------------------------------------
(* main() and train(), step by step.                                       *)

Command == argv[2]

Data == argv[3].value

\* The process ends: status c, nothing more is written.
Exit(c) == pc' = "exited" /\ exit_code' = c

\* An exception leaves the dispatched command for main()'s except clause.
RaiseIn(e) == pc' = "except" /\ exc' = <<e>>

\* lines 437-441: the usage check
CheckArgs ==
    /\ pc = "start"
    /\ IF Len(argv) < 3
       THEN /\ stdout' = Append(stdout, [error |-> "Usage"])
            /\ Exit(1)
       ELSE /\ pc' = "parse"
            /\ UNCHANGED <<stdout, exit_code>>
    /\ UNCHANGED <<argv, detector, files, dirs, files0, graph, epoch, loss, metrics,
                   saves, phases, env, result, exc, stderr>>

\* lines 443-448: json.loads and the detector.  Both run outside the try: text
\* that is not JSON raises JSONDecodeError, JSON that is not an object has no
\* .get and raises AttributeError; the interpreter prints the traceback and
\* ends the process with status 1.
ParseArgs ==
    /\ pc = "parse"
    /\ IF argv[3].kind = "invalid"
       THEN /\ stderr' = Append(stderr, [traceback |-> "JSONDecodeError"])
            /\ Exit(1)
            /\ UNCHANGED detector
       ELSE IF argv[3].kind # "object"
       THEN /\ stderr' = Append(stderr, [traceback |-> "AttributeError"])
            /\ Exit(1)
            /\ UNCHANGED detector
       ELSE /\ detector' = [NoDetector EXCEPT
                               !.model_path = Get(Data, "modelPath", DefaultModelPath)]
            /\ pc' = "dispatch"
            /\ UNCHANGED <<stderr, exit_code>>
    /\ UNCHANGED <<argv, files, dirs, files0, graph, epoch, loss, metrics,
                   saves, phases, env, result, exc, stdout>>

\* lines 451-453 and 216-217: the train branch reads data['graphData'] (KeyError
\* when the key is missing) and train() builds the graph
TrainPrepare ==
    /\ pc = "dispatch" /\ Command = "train"
    /\ IF "graphData" \notin DOMAIN Data
       THEN RaiseIn("KeyError") /\ UNCHANGED <<graph, phases>>
       ELSE LET prep == prepare_graph_data(Data["graphData"])
            IN IF ~prep.ok
               THEN RaiseIn(prep.error) /\ UNCHANGED <<graph, phases>>
               ELSE /\ graph' = prep.data
                    /\ phases' = Append(phases, "GraphBuilt")
                    /\ pc' = "graph_built"
                    /\ UNCHANGED exc
    /\ UNCHANGED <<argv, detector, files, dirs, files0, epoch, loss, metrics,
                   saves, env, result, stdout, stderr, exit_code>>

\* lines 220-234: the model and its per-type input projections.  When the
\* constructor of line 224 raises, self.model is not assigned and main()'s
\* handler takes over.
TrainInit ==
    /\ pc = "graph_built"
    /\ IF ConstructorRaises(Get(Data, "numLayers", NumLayers))
       THEN /\ RaiseIn("TypeError")
            /\ UNCHANGED <<detector, phases>>
       ELSE /\ detector' = [detector EXCEPT
                   !.node_embeddings = initialize_embeddings(graph.node_types,
                                           [t \in Range(graph.node_types) |-> Width(graph.x[t])])]
            /\ phases' = Append(phases, "ModelInitialized")
            /\ pc' = "model_initialized"
            /\ UNCHANGED exc
    /\ UNCHANGED <<argv, files, dirs, files0, graph, epoch, loss, metrics, saves, env,
                   result, stdout, stderr, exit_code>>

\* lines 236-242: the optimizer over the model's parameters, the empty metrics
TrainOptimizer ==
    /\ pc = "model_initialized"
    /\ detector' = [detector EXCEPT !.optimizer = TRUE]
    /\ metrics' = NoMetrics
    /\ epoch' = 0
    /\ pc' = "loop"
    /\ UNCHANGED <<argv, files, dirs, files0, graph, loss, saves, phases, env,
                   result, exc, stdout, stderr, exit_code>>

Epochs == Get(Data, "epochs", DefaultEpochs)

\* lines 456-457 and 267-273: the bundle of this run, with the model size the
\* caller asked for
RunCheckpoint ==
    Checkpoint(graph, Get(Data, "hiddenChannels", HiddenChannels),
               Get(Data, "numLayers", NumLayers))

\* lines 243-250: the next iteration starts with the forward pass
TrainForward ==
    /\ pc = "loop" /\ ~LoopDone(epoch, Epochs)
    /\ LET fwd == forward([t \in Range(graph.node_types) |-> graph.x[t]],
                          detector.node_embeddings)
       IN IF env.fail_epoch = epoch + 1 THEN RaiseIn("RuntimeError") /\ UNCHANGED phases
          ELSE IF ~fwd.ok THEN RaiseIn(fwd.error) /\ UNCHANGED phases
          ELSE /\ phases' = Append(phases, "Forward")
               /\ pc' = "forward_done"
               /\ UNCHANGED exc
    /\ UNCHANGED <<argv, detector, files, dirs, files0, graph, epoch, loss, metrics,
                   saves, env, result, stdout, stderr, exit_code>>

\* line 255; the negative targets are whatever torch.randint draws
TrainLoss ==
    /\ pc = "forward_done"
    /\ LET embeddings == forward([t \in Range(graph.node_types) |-> graph.x[t]],
                                 detector.node_embeddings).embeddings
       IN \E neg_target_indices \in
                  NegativeSamples(graph.edge_types, graph.edge_index, embeddings) :
              loss' = compute_contrastive_loss(graph.edge_types, graph.edge_index,
                                               neg_target_indices)
    /\ phases' = Append(phases, "LossComputed")
    /\ pc' = "loss_computed"
    /\ UNCHANGED <<argv, detector, files, dirs, files0, graph, epoch, metrics,
                   saves, env, result, exc, stdout, stderr, exit_code>>

TrainBackwardUnrecorded ==
    /\ pc = "loss_computed"
    /\ IF BackwardRaises(loss)
       THEN /\ RaiseIn("RuntimeError")
            /\ UNCHANGED <<phases, epoch, stderr>>
       ELSE /\ phases' = Append(phases, "BackwardUpdate")
            /\ stderr' = IF epoch % ProgressEvery = 0
                         THEN Append(stderr, [progress |-> epoch])
                         ELSE stderr
            /\ epoch' = epoch + 1
            /\ pc' = "loop"
            /\ UNCHANGED exc
    /\ UNCHANGED <<argv, detector, files, dirs, files0, graph, loss, metrics,
                   saves, env, result, stdout, exit_code>>

\* lines 257-263: backward, optimizer step, the loss recorded, the progress line
TrainBackward ==
    /\ pc = "loss_computed"
    /\ IF BackwardRaises(loss)
       THEN /\ RaiseIn("RuntimeError")
            /\ UNCHANGED <<phases, metrics, epoch, stderr>>
       ELSE /\ phases' = Append(phases, "BackwardUpdate")
            /\ metrics' = [metrics EXCEPT !.losses = Append(metrics.losses, loss.value)]
            /\ stderr' = IF epoch % ProgressEvery = 0
                         THEN Append(stderr, [progress |-> epoch])
                         ELSE stderr
            /\ epoch' = epoch + 1
            /\ pc' = "loop"
            /\ UNCHANGED exc
    /\ UNCHANGED <<argv, detector, files, dirs, files0, graph, loss,
                   saves, env, result, stdout, exit_code>>

\* lines 265-275: after the loop, the directory, the checkpoint, the return value
TrainSave ==
    /\ pc = "loop" /\ LoopDone(epoch, Epochs)
    /\ LET dir == Dirname(detector.model_path)
       IN IF MakedirsRaises(dir)
          THEN /\ RaiseIn("FileNotFoundError")
               /\ UNCHANGED <<dirs, files, saves, phases, result>>
          ELSE /\ dirs' = dirs \cup {dir}
               /\ files' = [files EXCEPT ![detector.model_path] = <<RunCheckpoint>>]
               /\ saves' = saves + 1
               /\ phases' = Append(phases, "Checkpointed")
               /\ result' = <<[metrics |-> metrics, epochs |-> Epochs]>>
               /\ pc' = "print"
               /\ UNCHANGED exc
    /\ UNCHANGED <<argv, detector, files0, graph, epoch, loss, metrics, env,
                   stdout, stderr, exit_code>>

\* lines 460-465
InferCall ==
    /\ pc = "dispatch" /\ Command = "infer"
    /\ IF "graphData" \notin DOMAIN Data
       THEN RaiseIn("KeyError") /\ UNCHANGED <<result, detector>>
       ELSE LET r == infer(Data["graphData"], detector.model_path,
                           Get(Data, "minConfidence", DefaultMinConfidence),
                           Get(Data, "topK", DefaultTopK), files, env.head,
                           detector.node_embeddings)
            IN /\ detector' = [detector EXCEPT !.node_embeddings = r.model]
               /\ IF ~r.ok THEN RaiseIn(r.error) /\ UNCHANGED result
                  ELSE /\ result' = <<[patterns |-> r.out.patterns]>>
                       /\ pc' = "print"
                       /\ UNCHANGED exc
    /\ UNCHANGED <<argv, files, dirs, files0, graph, epoch, loss, metrics,
                   saves, phases, env, stdout, stderr, exit_code>>

\* lines 467-470
EmbedCall ==
    /\ pc = "dispatch" /\ Command = "embed"
    /\ IF "graphData" \notin DOMAIN Data
       THEN RaiseIn("KeyError") /\ UNCHANGED <<result, detector>>
       ELSE LET r == generate_embeddings(Data["graphData"], detector.model_path, files,
                                         detector.node_embeddings)
            IN /\ detector' = [detector EXCEPT !.node_embeddings = r.model]
               /\ IF ~r.ok THEN RaiseIn(r.error) /\ UNCHANGED result
                  ELSE /\ result' = <<[embeddings |-> r.out.embeddings,
                                       nodeIds |-> r.out.nodeIds]>>
                       /\ pc' = "print"
                       /\ UNCHANGED exc
    /\ UNCHANGED <<argv, files, dirs, files0, graph, epoch, loss, metrics,
                   saves, phases, env, stdout, stderr, exit_code>>

\* lines 472-479
CheckCall ==
    /\ pc = "dispatch" /\ Command = "check"
    /\ result' = <<[pythonVersion |-> "version", dependencies |-> "installed"]>>
    /\ pc' = "print"
    /\ UNCHANGED <<argv, detector, files, dirs, files0, graph, epoch, loss, metrics,
                   saves, phases, env, exc, stdout, stderr, exit_code>>

\* lines 481-482: any other command name
UnknownCommand ==
    /\ pc = "dispatch" /\ Command \notin {"train", "infer", "embed", "check"}
    /\ result' = <<[error |-> "Unknown command"]>>
    /\ pc' = "print"
    /\ UNCHANGED <<argv, detector, files, dirs, files0, graph, epoch, loss, metrics,
                   saves, phases, env, exc, stdout, stderr, exit_code>>

\* line 484, then main() returns and the process ends with status 0
PrintResult ==
    /\ pc = "print"
    /\ stdout' = Append(stdout, result[1])
    /\ Exit(0)
    /\ UNCHANGED <<argv, detector, files, dirs, files0, graph, epoch, loss, metrics,
                   saves, phases, env, result, exc, stderr>>

\* lines 486-488: the except clause
HandleException ==
    /\ pc = "except"
    /\ stderr' = Append(stderr, [error |-> exc[1]])
    /\ Exit(1)
    /\ UNCHANGED <<argv, detector, files, dirs, files0, graph, epoch, loss, metrics,
                   saves, phases, env, result, exc, stdout>>

Next ==
    \/ CheckArgs
    \/ ParseArgs
    \/ TrainPrepare
    \/ TrainInit
    \/ TrainOptimizer
    \/ TrainForward
    \/ TrainLoss
    \/ TrainBackward
    \/ TrainSave
    \/ InferCall
    \/ EmbedCall
    \/ CheckCall
    \/ UnknownCommand
    \/ PrintResult
    \/ HandleException

Spec == Init /\ [][Next]_vars

-----------------------------------------------------------------------------
(* Invocations of infer alone, over more pairs, thresholds and cut-offs.   *)

MinConfidences == {0, 98304, 98305}

TopKs == {-1, 0, 1, 2, DefaultTopK}

\* o nodes of another type, then m music nodes, then e calendar events
TypesInOrder(o, m, e) ==
    [k \in 1..(o + m + e) |->
        IF k <= o THEN "Other" ELSE IF k <= o + m THEN "MusicActivity" ELSE "CalendarEvent"]

InferPayloads ==
    {[nodes |-> MkNodes(TypesInOrder(o, me[1], me[2]), 1), edges |-> <<>>] :
        o \in 0..1,
        me \in {x \in (0..MaxPairNodes) \X (0..MaxPairNodes) : x[1] + x[2] <= MaxPairNodes}}

InferArgvs ==
    {<<"gnn_model.py", "infer",
       [kind |-> "object",
        value |-> Dict({"graphData", "minConfidence", "topK"}, g, <<>>, 0, mc, tk)]>> :
        g \in InferPayloads, mc \in MinConfidences, tk \in TopKs}

InitInfer ==
    \E a \in InferArgvs :
        \E content \in {<<CheckpointOf(GraphNoEdges)>>, <<CheckpointOf(GraphEventsOnly)>>} :
            \E h \in Heads(a, content) : InitWith(a, content, 0, h)

NextInfer ==
    \/ CheckArgs
    \/ ParseArgs
    \/ InferCall
    \/ PrintResult
    \/ HandleException

SpecInfer == InitInfer /\ [][NextInfer]_vars

-----------------------------------------------------------------------------
(* Invocations of train alone, for one epoch, over more graphs: node ids   *)
(* that are not list positions, feature rows of two lengths, several edges *)
(* and edge types, edges whose ids no node has.                            *)

GraphTypes == {"MusicActivity", "CalendarEvent"}

\* The ids of a node list: in list order, in reverse order, or with the second
\* node reusing the first node's id.
IdSchemes == {"forward", "reverse", "duplicate"}

NodeId(scheme, n, k) ==
    CASE scheme = "forward" -> k
      [] scheme = "reverse" -> n + 1 - k
      [] OTHER              -> IF k = 2 THEN 1 ELSE k

\* The magnitude of the feature values: small, or just above 2^24.
FeatureBases == {0, Float32Exact}

\* Node k has the features <<base + 10k + 1>>, or <<base + 10k + 1, base + 10k + 2>>
\* when k = wide.
MkGraphNodes(types, scheme, wide, base) ==
    [k \in DOMAIN types |->
        [id       |-> NodeId(scheme, Len(types), k),
         type     |-> types[k],
         features |-> [d \in 1..(IF k = wide THEN 2 ELSE 1) |-> base + 10 * k + d]]]

\* The edges a list over n nodes is made of; the ids 2 (for n < 2) and n + 1
\* belong to no node.
EdgeAlphabet(n) ==
    {MkEdge(1, n, "PRECEDES"), MkEdge(2, n, "PRECEDES"),
     MkEdge(n, 1, "STRICTLY_PRECEDES"), MkEdge(1, n, "RELATED"),
     MkEdge(1, n + 1, "PRECEDES")}

\* The payload of n = Len(types) nodes and the edges es
GraphPayload(types, scheme, wide, base, es) ==
    [nodes |-> MkGraphNodes(types, scheme, wide, base), edges |-> es]

TrainArgv(g) ==
    <<"gnn_model.py", "train",
      [kind |-> "object",
       value |-> Dict({"graphData", "epochs", "numLayers"}, g, <<>>, 1, 0, 0)]>>

InitTrain ==
    \E types \in SeqsUpTo(GraphTypes, MaxNodes) :
        \E scheme \in IdSchemes, wide \in 0..Len(types), base \in FeatureBases :
            \E es \in SeqsUpTo(EdgeAlphabet(Len(types)), MaxEdges) :
                InitWith(TrainArgv(GraphPayload(types, scheme, wide, base, es)), <<>>, 0, <<>>)

NextTrain ==
    \/ CheckArgs
    \/ ParseArgs
    \/ TrainPrepare
    \/ TrainInit
    \/ TrainOptimizer
    \/ TrainForward
    \/ TrainLoss
    \/ TrainBackward
    \/ TrainSave
    \/ PrintResult
    \/ HandleException

SpecTrain == InitTrain /\ [][NextTrain]_vars

-----------------------------------------------------------------------------
(* What the claims speak of.                                               *)

Done == pc = "exited"

\* main() reached the dispatch of command c
Ran(c) == Len(argv) >= 3 /\ argv[3].kind = "object" /\ argv[2] = c

ModelPath == PathOf(argv)

ErrorDoc(e) == [error |-> e]

IsErrorDoc(d) == "error" \in DOMAIN d

Last(s) == s[Len(s)]

\* The payload handed to the command, where there is one
HasGraph == "graphData" \in DOMAIN argv[3].value

Payload == argv[3].value["graphData"]

NodeIds(g) == {g.nodes[k].id : k \in DOMAIN g.nodes}

TypeOfId(g, id) == (CHOOSE k \in DOMAIN g.nodes : g.nodes[k].id = id)

GraphNodeTypes(g) == {g.nodes[k].type : k \in DOMAIN g.nodes}

EdgesResolve(g) ==
    \A k \in DOMAIN g.edges : g.edges[k].source \in NodeIds(g) /\ g.edges[k].target \in NodeIds(g)

GraphEdgeTypes(g) ==
    {<<g.nodes[TypeOfId(g, g.edges[k].source)].type, g.edges[k].type,
       g.nodes[TypeOfId(g, g.edges[k].target)].type>> : k \in DOMAIN g.edges}

\* the bundle a train run is to save: the graph's types and feature widths,
\* the hidden width and depth asked for on the command line or the defaults
ExpectedCheckpoint ==
    [metadata        |-> <<graph.node_types, graph.edge_types>>,
     feature_dims    |-> [t \in DOMAIN graph.x |-> Len(graph.x[t][1])],
     hidden_channels |-> IF "hiddenChannels" \in DOMAIN argv[3].value
                         THEN argv[3].value["hiddenChannels"] ELSE HiddenChannels,
     num_layers      |-> IF "numLayers" \in DOMAIN argv[3].value
                         THEN argv[3].value["numLayers"] ELSE NumLayers]

NoPrecedesEdge(g) == \A k \in DOMAIN g.edges : ~HasPRECEDES(g.edges[k].type)

-----------------------------------------------------------------------------
(* C1.                                                                     *)

\* C1: when the dispatched train, infer or embed command raises, the process
\* writes {error: message} to standard output and exits non-zero.
C1_ErrorOnStdout ==
    (Done /\ exc # <<>>) =>
        /\ exit_code # 0 /\ exit_code # -1
        /\ \E k \in DOMAIN stdout : stdout[k] = ErrorDoc(exc[1])

\* What the code does where C1 fails: the document is the last one written to
\* standard error, standard output stays empty, and the status is 1.
C1_ErrorOnStderr ==
    (Done /\ exc # <<>>) =>
        /\ exit_code = 1
        /\ stdout = <<>>
        /\ stderr # <<>> /\ Last(stderr) = ErrorDoc(exc[1])
        /\ argv[2] \in {"train", "infer", "embed"}

\* a train run that failed in its second epoch, after a progress line
C1_Witness ==
    /\ Done /\ Ran("train") /\ exc = <<"RuntimeError">>
    /\ Len(metrics.losses) >= 1 /\ Len(stderr) >= 2

-----------------------------------------------------------------------------
(* C2.                                                                     *)

\* C2: a command name other than train, infer, embed or check (given with a
\* well-formed JSON object) is reported as an error and the process exits
\* with a non-zero status.
C2_UnknownCommandExitsNonZero ==
    (/\ Done /\ Len(argv) >= 3 /\ argv[3].kind = "object"
     /\ argv[2] \notin {"train", "infer", "embed", "check"}) =>
        /\ exit_code # 0
        /\ \E k \in DOMAIN stdout \cup DOMAIN stderr :
               \/ k \in DOMAIN stdout /\ IsErrorDoc(stdout[k])
               \/ k \in DOMAIN stderr /\ IsErrorDoc(stderr[k])

-----------------------------------------------------------------------------
(* C3.                                                                     *)

Uncaught == \E k \in DOMAIN stderr : "traceback" \in DOMAIN stderr[k]

ErrorReported ==
    \/ \E k \in DOMAIN stdout : IsErrorDoc(stdout[k])
    \/ \E k \in DOMAIN stderr : IsErrorDoc(stderr[k])

\* C3: every error of an invocation, one raised while parsing the JSON blob
\* included, ends as an {error: ...} document and a non-zero exit: no
\* invocation ends with an uncaught exception, and no result that looks
\* successful is printed alongside an error.
C3_AllErrorsCaught ==
    Done =>
        /\ ~Uncaught
        /\ (exit_code # 0 => ErrorReported)
        /\ (ErrorReported => exit_code # 0)
        /\ (ErrorReported => \A k \in DOMAIN stdout : IsErrorDoc(stdout[k]))

-----------------------------------------------------------------------------
(* C4.                                                                     *)

\* C4: training on a graph with no PRECEDES edge type completes all epochs
\* without error, records a loss of exactly 0 for every epoch, and writes a
\* checkpoint (a model that can be constructed, no library failure, and a
\* model path with a directory part).
C4_NoPrecedesTrainsToZero ==
    (/\ Done /\ Ran("train") /\ HasGraph
     /\ prepare_graph_data(Payload).ok /\ NoPrecedesEdge(Payload)
     /\ ~ConstructorRaises(Get(argv[3].value, "numLayers", NumLayers))
     /\ env.fail_epoch = 0 /\ Dirname(ModelPath) # <<>>) =>
        /\ exit_code = 0
        /\ exc = <<>>
        /\ metrics.losses = [k \in 1..Epochs |-> "0.0"]
        /\ saves = 1 /\ files[ModelPath] # <<>>

-----------------------------------------------------------------------------
(* C5.                                                                     *)

\* C5: train writes the checkpoint at most once, only after the last epoch has
\* completed, and exactly once in a run that succeeds; a run in which a step
\* raises writes no checkpoint and leaves the files as they were.
C5_CheckpointAfterLastEpoch ==
    /\ saves <= 1
    /\ (saves = 0 => files = files0)
    /\ (saves = 1 =>
           /\ Ran("train") /\ exc = <<>>
           /\ epoch = Epochs /\ Len(metrics.losses) = Epochs
           /\ files[ModelPath] = <<ExpectedCheckpoint>>)
    /\ (Ran("train") /\ exc # <<>> => saves = 0)
    /\ (Done /\ Ran("train") /\ exit_code = 0 => saves = 1)

\* a run of two or more epochs that replaced an older checkpoint
C5_Witness ==
    /\ Done /\ Ran("train") /\ saves = 1 /\ Epochs >= 2
    /\ files0[ModelPath] # <<>> /\ files[ModelPath] # files0[ModelPath]

-----------------------------------------------------------------------------
(* C6 - C9: the pattern list of infer.                                     *)

InferReturned == Ran("infer") /\ result # <<>>

Patterns == result[1].patterns

MinConfidence == Get(argv[3].value, "minConfidence", DefaultMinConfidence)

TopK == Get(argv[3].value, "topK", DefaultTopK)

PairOf(p) == <<p.music_activity_idx, p.calendar_event_idx>>

\* the pairs the Correlation Head scores: every (music node, event node) of the
\* graph when the checkpoint knows both types, none otherwise
ScoredPairs == IF ScoresPairs(files0[ModelPath]) THEN PairsOf(Payload.nodes) ELSE {}

QualifyingPairs == {q \in ScoredPairs : env.head[q] >= MinConfidence}

ReturnedPairs == {PairOf(Patterns[k]) : k \in DOMAIN Patterns}

\* C6 as stated: consecutive entries of the returned list have non-increasing
\* raw score (correlation).
C6_SortedByCorrelation ==
    InferReturned =>
        \A k \in 1..(Len(Patterns) - 1) : Patterns[k].correlation >= Patterns[k + 1].correlation

\* C6, amended: consecutive entries of the returned list have non-increasing
\* confidence_score, the score as a percentage rounded to two decimals.
C6_SortedByConfidenceScore ==
    InferReturned =>
        \A k \in 1..(Len(Patterns) - 1) :
            Patterns[k].confidence_score >= Patterns[k + 1].confidence_score

\* the sort moved a later-scanned pair with a higher score to the front
C6_Witness ==
    /\ InferReturned /\ Len(Patterns) >= 2
    /\ Patterns[1].confidence_score > Patterns[2].confidence_score
    /\ Patterns[1].music_activity_idx > Patterns[2].music_activity_idx

\* The parts of C7 that do not depend on the ranking key: only qualifying
\* scored pairs are returned, each with its head score, and min(topK, Q) of them.
C7_FilteredAndCounted ==
    /\ \A k \in DOMAIN Patterns :
           /\ PairOf(Patterns[k]) \in QualifyingPairs
           /\ Patterns[k].correlation = env.head[PairOf(Patterns[k])]
           /\ Patterns[k].correlation >= MinConfidence
    /\ (TopK >= 0 => Len(Patterns) = Min(TopK, Cardinality(QualifyingPairs)))

\* C7 as stated: ... and no qualifying pair that was left out has a raw score
\* strictly greater than a returned pair's.
C7_TopByCorrelation ==
    InferReturned =>
        /\ C7_FilteredAndCounted
        /\ \A q \in QualifyingPairs \ ReturnedPairs : \A k \in DOMAIN Patterns :
               env.head[q] <= Patterns[k].correlation

\* C7, amended: ... and no qualifying pair that was left out has a
\* confidence_score strictly greater than a returned pair's.
C7_TopByConfidenceScore ==
    InferReturned =>
        /\ C7_FilteredAndCounted
        /\ \A q \in QualifyingPairs \ ReturnedPairs : \A k \in DOMAIN Patterns :
               confidence_score(env.head[q]) <= Patterns[k].confidence_score

\* the threshold removed a pair and the cut-off removed a qualifying one
C7_Witness ==
    /\ InferReturned /\ TopK >= 1 /\ Len(Patterns) = TopK
    /\ QualifyingPairs \ ReturnedPairs # {}
    /\ ScoredPairs \ QualifyingPairs # {}

PatternsAt(min_confidence) ==
    infer(Payload, ModelPath, min_confidence, TopK, files0, env.head, <<>>).out.patterns

\* C8: for the same graph, checkpoint and topK, the list returned with a higher
\* minConfidence is never longer than the list returned with a lower one.
C8_ThresholdMonotone ==
    InferReturned =>
        \A m \in MinConfidences :
            /\ (m >= MinConfidence => Len(PatternsAt(m)) <= Len(Patterns))
            /\ (m <= MinConfidence => Len(PatternsAt(m)) >= Len(Patterns))

\* a higher threshold gives a strictly shorter, non-empty list
C8_Witness ==
    /\ InferReturned
    /\ \E m \in MinConfidences :
           m > MinConfidence /\ Len(PatternsAt(m)) < Len(Patterns) /\ Len(PatternsAt(m)) >= 1

NumMusic == CountType(Payload.nodes, "MusicActivity")

NumEvents == CountType(Payload.nodes, "CalendarEvent")

AllPairsOnce ==
    /\ Len(Patterns) = NumMusic * NumEvents
    /\ ReturnedPairs = (0..(NumMusic - 1)) \X (0..(NumEvents - 1))

\* C9 as stated: with minConfidence = 0 and topK >= |music| x |events|, infer
\* returns exactly one entry for every (music node, event node) pair.
C9_AllPairs ==
    (InferReturned /\ MinConfidence = 0 /\ TopK >= NumMusic * NumEvents) => AllPairsOnce

\* C9, amended: ... when the checkpoint's node types include both MusicActivity
\* and CalendarEvent (otherwise the list is empty).
C9_AllPairsOfKnownTypes ==
    (InferReturned /\ MinConfidence = 0 /\ TopK >= NumMusic * NumEvents) =>
        IF ScoresPairs(files0[ModelPath]) THEN AllPairsOnce ELSE Patterns = <<>>

\* 2 music nodes and 2 events give 4 entries
C9_Witness ==
    /\ InferReturned /\ MinConfidence = 0 /\ NumMusic = 2 /\ NumEvents = 2
    /\ TopK >= 4 /\ Len(Patterns) = 4

-----------------------------------------------------------------------------
(* C10.                                                                    *)

CheckpointOnDisk == files0[ModelPath][1]

Vocabulary == Range(CheckpointOnDisk.metadata[1])

UnknownTypes == GraphNodeTypes(Payload) \ Vocabulary

\* infer or embed ran on a graph with nodes of a type the checkpoint does not know
C10_Case ==
    /\ Done /\ (Ran("infer") \/ Ran("embed")) /\ HasGraph
    /\ files0[ModelPath] # <<>>
    /\ UnknownTypes # {}

\* apart from the type of those nodes the graph is one the checkpoint's model
\* accepts: its edges resolve, the feature rows of a type have one length, it
\* has every node type and edge type of the checkpoint, and the feature rows
\* of the known types have the recorded width
KnownPartValid ==
    /\ EdgesResolve(Payload)
    /\ \A a, b \in DOMAIN Payload.nodes :
           Payload.nodes[a].type = Payload.nodes[b].type =>
               Len(Payload.nodes[a].features) = Len(Payload.nodes[b].features)
    /\ Vocabulary \subseteq GraphNodeTypes(Payload)
    /\ Range(CheckpointOnDisk.metadata[2]) \subseteq GraphEdgeTypes(Payload)
    /\ \A k \in DOMAIN Payload.nodes :
           Payload.nodes[k].type \in Vocabulary =>
               Len(Payload.nodes[k].features) = CheckpointOnDisk.feature_dims[Payload.nodes[k].type]

NoUnknownInOutput ==
    IF argv[2] = "embed"
    THEN /\ \A k \in DOMAIN result[1].nodeIds : result[1].nodeIds[k][1] \in Vocabulary
         /\ \A k \in DOMAIN result[1].embeddings : result[1].embeddings[k].type \in Vocabulary
    ELSE \A k \in DOMAIN Patterns :
             /\ {"MusicActivity", "CalendarEvent"} \subseteq Vocabulary
             /\ Patterns[k].music_activity_idx < NumMusic
             /\ Patterns[k].calendar_event_idx < NumEvents

\* the graph without its nodes of unknown type and without the edges that
\* join such a node to another node
IsUnknownNode(g, id) ==
    \E k \in DOMAIN g.nodes : g.nodes[k].id = id /\ g.nodes[k].type \notin Vocabulary

JoinsUnknown(g, e) ==
    /\ e.source \in NodeIds(g) /\ e.target \in NodeIds(g)
    /\ IsUnknownNode(g, e.source) \/ IsUnknownNode(g, e.target)

WithoutUnknown(g) ==
    [nodes |-> SelectSeq(g.nodes, LAMBDA n : n.type \in Vocabulary),
     edges |-> SelectSeq(g.edges, LAMBDA e : ~JoinsUnknown(g, e))]

\* what the command of this run returns or raises when given the graph g
RunOn(g) ==
    IF argv[2] = "embed"
    THEN generate_embeddings(g, ModelPath, files0, <<>>)
    ELSE infer(g, ModelPath, MinConfidence, TopK, files0, env.head, <<>>)

OutputOf(r) ==
    IF argv[2] = "embed"
    THEN <<[embeddings |-> r.out.embeddings, nodeIds |-> r.out.nodeIds]>>
    ELSE <<[patterns |-> r.out.patterns]>>

\* C10: nodes of a type that is not in the checkpoint's node-type vocabulary
\* make neither infer nor embed fail, and no output entry belongs to a node of
\* such a type: the run succeeds exactly when the same command succeeds on the
\* graph without those nodes, it then prints the same output, and it fails with
\* the same error otherwise; a graph whose known part is valid succeeds with
\* every checkpoint whose model can be rebuilt.
C10_UnknownTypesIsolated ==
    C10_Case =>
        LET known == RunOn(WithoutUnknown(Payload))
        IN /\ (exit_code = 0) = known.ok
           /\ exit_code = 0 =>
                  /\ result = OutputOf(known) /\ stdout = result
                  /\ NoUnknownInOutput
           /\ exit_code # 0 => result = <<>> /\ exc = <<known.error>>
           /\ (KnownPartValid /\ ~ConstructorRaises(CheckpointOnDisk.num_layers)) =>
                  exit_code = 0

\* a run that succeeded on such a graph with a non-empty output
C10_Witness ==
    /\ C10_Case /\ exit_code = 0 /\ KnownPartValid
    /\ IF argv[2] = "embed" THEN result[1].nodeIds # <<>> ELSE Patterns # <<>>

-----------------------------------------------------------------------------
(* C11.                                                                    *)

\* embed ran with a checkpoint on disk whose model can be rebuilt, on a graph
\* that is well-formed and fits the checkpoint wherever it has nodes: ids
\* resolve, the rows of a type have the width the checkpoint records, the
\* checkpoint's edge types are present; the graph has a node of a known type
C11_Case ==
    /\ Done /\ Ran("embed") /\ HasGraph
    /\ files0[ModelPath] # <<>>
    /\ ~ConstructorRaises(CheckpointOnDisk.num_layers)
    /\ GraphNodeTypes(Payload) \cap Vocabulary # {}
    /\ EdgesResolve(Payload)
    /\ Range(CheckpointOnDisk.metadata[2]) \subseteq GraphEdgeTypes(Payload)
    /\ \A k \in DOMAIN Payload.nodes :
           Payload.nodes[k].type \in Vocabulary =>
               Len(Payload.nodes[k].features) = CheckpointOnDisk.feature_dims[Payload.nodes[k].type]

\* one label per graph node of a known type: <<T, k>> for the k-th node of type T
ExpectedIds ==
    UNION {{<<t, k>> : k \in 0..(CountType(Payload.nodes, t) - 1)} : t \in Vocabulary}

GroupedAscending(ids) ==
    /\ \A a, b \in DOMAIN ids : (a < b /\ ids[a][1] = ids[b][1]) => ids[a][2] < ids[b][2]
    /\ \A a, b, c \in DOMAIN ids : (a < b /\ b < c /\ ids[a][1] = ids[c][1]) => ids[b][1] = ids[a][1]

\* C11: embed returns embeddings and nodeIds of equal length, one entry per
\* graph node of a known type, labelled T_k by type and local index, grouped by
\* type with k ascending; a known type with zero nodes in the graph adds no
\* entry and causes no failure.
C11_EmbedLabelsKnownNodes ==
    C11_Case =>
        /\ exit_code = 0 /\ result # <<>>
        /\ Len(result[1].embeddings) = Len(result[1].nodeIds)
        /\ Len(result[1].nodeIds) = Cardinality(ExpectedIds)
        /\ Range(result[1].nodeIds) = ExpectedIds
        /\ GroupedAscending(result[1].nodeIds)
        /\ \A k \in DOMAIN result[1].nodeIds :
               result[1].embeddings[k] =
                   [type |-> result[1].nodeIds[k][1], row |-> result[1].nodeIds[k][2]]

-----------------------------------------------------------------------------
(* C12 - C15: graph construction, as train's first step.                   *)

\* train has called prepare_graph_data and the call is over
ConstructionOver ==
    /\ Len(argv) >= 3 /\ argv[2] = "train" /\ argv[3].kind = "object" /\ HasGraph
    /\ pc \notin {"start", "parse", "dispatch"}

\* the call returned a graph
GraphReturned == "GraphBuilt" \in Range(phases)

ConstructionFailed(e) == ~GraphReturned /\ exc = <<e>> /\ graph = EmptyData

\* two nodes of one type have feature vectors of different lengths
RaggedFeatures(g) ==
    \E a, b \in DOMAIN g.nodes :
        g.nodes[a].type = g.nodes[b].type /\ Len(g.nodes[a].features) # Len(g.nodes[b].features)

\* The code defines no error classes of its own.  The error of an unresolved
\* edge reference is the KeyError of the id lookup (lines 187-188), the error
\* of a malformed payload the ValueError of torch.tensor (line 182).
GraphConstructionError == "KeyError"

SchemaError == "ValueError"

\* C12 as stated: graph construction fails with the unresolved-reference error,
\* and returns no graph, whenever some edge's source or target id is not the id
\* of a node of the payload.
C12_UnknownIdFails ==
    (ConstructionOver /\ ~EdgesResolve(Payload)) => ConstructionFailed(GraphConstructionError)

\* C12, amended: ... it fails and returns no graph; the error is the id
\* lookup's KeyError, unless two nodes of one type have feature vectors of
\* different lengths, which is found first and raises ValueError.
C12_UnknownIdFailsAfterFeatures ==
    (ConstructionOver /\ ~EdgesResolve(Payload)) =>
        ConstructionFailed(IF RaggedFeatures(Payload) THEN "ValueError" ELSE "KeyError")

\* a payload whose first edge resolves and whose second edge names an id no
\* node has, reported by the process
C12_Witness ==
    /\ Done /\ ConstructionOver /\ exc = <<"KeyError">>
    /\ Len(Payload.edges) = 2
    /\ Payload.edges[1].source \in NodeIds(Payload) /\ Payload.edges[1].target \in NodeIds(Payload)
    /\ Payload.edges[2].target \notin NodeIds(Payload)

\* C13: graph construction fails with the malformed-payload error when the node
\* list is empty, and when two nodes of the same type have feature vectors of
\* different lengths; in neither case is a graph returned.  (Where an edge
\* reference is unresolved as well, that error is accepted in its place.)
C13_MalformedPayloadFails ==
    (ConstructionOver /\ (Payload.nodes = <<>> \/ RaggedFeatures(Payload))) =>
        \/ ConstructionFailed(SchemaError)
        \/ ~EdgesResolve(Payload) /\ ConstructionFailed(GraphConstructionError)

UniqueIds(g) == \A a, b \in DOMAIN g.nodes : g.nodes[a].id = g.nodes[b].id => a = b

\* a payload the builder's contract admits
ValidPayload(g) == UniqueIds(g) /\ ~RaggedFeatures(g) /\ EdgesResolve(g)

\* the number of nodes of node k's type that come before it in the node list
EarlierOfType(g, k) == Cardinality({j \in 1..(k - 1) : g.nodes[j].type = g.nodes[k].type})

\* the position of the first node of type t in the node list
FirstOfType(g, t) == CHOOSE k \in DOMAIN g.nodes :
    g.nodes[k].type = t /\ \A j \in 1..(k - 1) : g.nodes[j].type # t

\* the (type, local index) recorded for every node id while the nodes are grouped
NodeIdToIdx(g) ==
    GroupNodes(g.nodes, 1,
        [nodes_by_type |-> <<>>, type_order |-> <<>>, node_id_to_idx |-> <<>>]).node_id_to_idx

\* the indices of a valid payload's nodes: each node gets the local index
\* equal to the number of earlier nodes of its type, so each type's indices are
\* 0..n-1 in first-seen order and its matrix has one row per node
C14_Indexed ==
        /\ GraphReturned
        /\ DOMAIN graph.x = GraphNodeTypes(Payload)
        /\ Range(graph.node_types) = GraphNodeTypes(Payload)
        /\ \A a, b \in DOMAIN graph.node_types :
               a < b => FirstOfType(Payload, graph.node_types[a])
                            < FirstOfType(Payload, graph.node_types[b])
        /\ \A t \in DOMAIN graph.x : Len(graph.x[t]) = CountType(Payload.nodes, t)
        /\ \A k \in DOMAIN Payload.nodes :
               NodeIdToIdx(Payload)[Payload.nodes[k].id]
                   = <<Payload.nodes[k].type, EarlierOfType(Payload, k)>>

\* the row of the feature matrix at node k's (type, local index) slot
RowOf(k) == graph.x[Payload.nodes[k].type][EarlierOfType(Payload, k) + 1]

\* C14 as stated: for every valid payload (unique node ids) each node gets the
\* local index equal to the number of earlier nodes of its type, and row
\* localIndex of the type's feature matrix equals the node's original feature
\* vector.
C14_RoundTrip ==
    (ConstructionOver /\ ValidPayload(Payload)) =>
        /\ C14_Indexed
        /\ \A k \in DOMAIN Payload.nodes : RowOf(k) = Payload.nodes[k].features

\* x is a 32-bit float nearest to v: a multiple of the float spacing at its
\* own magnitude, at most half the spacing at v away from v
NearestFloat32(x, v) ==
    /\ x % Ulp32(x) = 0
    /\ 2 * (IF x >= v THEN x - v ELSE v - x) <= Ulp32(v)

\* C14, amended: ... and row localIndex of the type's feature matrix is the
\* node's feature vector stored as 32-bit floats: of the same length, each
\* entry a float nearest to the original value, and equal to it when the
\* value is a 32-bit float itself (every integer up to 2^24 is).
C14_RoundTripInFloat32 ==
    (ConstructionOver /\ ValidPayload(Payload)) =>
        /\ C14_Indexed
        /\ \A k \in DOMAIN Payload.nodes :
               /\ Len(RowOf(k)) = Len(Payload.nodes[k].features)
               /\ \A d \in DOMAIN RowOf(k) :
                      /\ NearestFloat32(RowOf(k)[d], Payload.nodes[k].features[d])
                      /\ Payload.nodes[k].features[d] <= Float32Exact =>
                             RowOf(k)[d] = Payload.nodes[k].features[d]

\* three nodes, the first and third of one type and the second of another,
\* with ids that are not their list positions and feature values that are not
\* 32-bit floats
C14_Witness ==
    /\ ConstructionOver /\ ValidPayload(Payload) /\ GraphReturned
    /\ Len(Payload.nodes) = 3
    /\ Payload.nodes[1].type = Payload.nodes[3].type
    /\ Payload.nodes[1].type # Payload.nodes[2].type
    /\ Payload.nodes[1].id = 3
    /\ Len(graph.x[Payload.nodes[1].type]) = 2
    /\ RowOf(3) # Payload.nodes[3].features
    /\ RowOf(3) # RowOf(1)

\* the edge type of an input edge: (type of its source node, relation, type of
\* its target node)
EdgeTypeOf(g, e) ==
    <<g.nodes[TypeOfId(g, e.source)].type, e.type, g.nodes[TypeOfId(g, e.target)].type>>

\* the local index of the node with this id
LocalIndexOf(g, id) == EarlierOfType(g, TypeOfId(g, id))

\* the input edges of one edge type, in input order
EdgesOfType(g, et) == SelectSeq(g.edges, LAMBDA e : EdgeTypeOf(g, e) = et)

\* C15: after the construction of a valid payload's graph every input edge
\* appears exactly once, in input order, in the index matrix of its edge type
\* (source type, relation, target type) and in no other; row 0 holds source
\* local indices, row 1 target local indices, each smaller than the node count
\* of its type.
C15_EdgesGrouped ==
    (ConstructionOver /\ ValidPayload(Payload)) =>
        /\ GraphReturned
        /\ DOMAIN graph.edge_index = GraphEdgeTypes(Payload)
        /\ Range(graph.edge_types) = GraphEdgeTypes(Payload)
        /\ Len(graph.edge_types) = Cardinality(GraphEdgeTypes(Payload))
        /\ \A et \in DOMAIN graph.edge_index :
               LET edge_index == graph.edge_index[et]
                   input      == EdgesOfType(Payload, et)
               IN /\ Len(edge_index) = 2
                  /\ Len(edge_index[1]) = Len(input) /\ Len(edge_index[2]) = Len(input)
                  /\ \A k \in DOMAIN input :
                         /\ edge_index[1][k] = LocalIndexOf(Payload, input[k].source)
                         /\ edge_index[2][k] = LocalIndexOf(Payload, input[k].target)
                         /\ edge_index[1][k] < CountType(Payload.nodes, et[1])
                         /\ edge_index[2][k] < CountType(Payload.nodes, et[3])

\* two edges of one edge type, from different source rows, the second with
\* different source and target rows
C15_Witness ==
    /\ ConstructionOver /\ ValidPayload(Payload) /\ GraphReturned
    /\ \E et \in DOMAIN graph.edge_index :
           /\ Len(graph.edge_index[et][1]) = 2
           /\ graph.edge_index[et][1][1] # graph.edge_index[et][1][2]
           /\ graph.edge_index[et][1][2] # graph.edge_index[et][2][2]

-----------------------------------------------------------------------------
(* C16.                                                                    *)

\* train built its graph and model and every epoch of the run completed
EpochsAllSucceeded ==
    /\ Ran("train") /\ HasGraph /\ GraphReturned /\ detector.optimizer
    /\ epoch = Epochs /\ Len(metrics.losses) = Epochs

\* C16: for every caller-supplied modelPath, a bare file name and a path whose
\* directory does not exist yet included, a train run whose epochs all succeed
\* ends with the checkpoint saved at that path, its directory created if it
\* was absent.
C16_CheckpointAtAnyPath ==
    (Done /\ EpochsAllSucceeded) =>
        /\ exit_code = 0
        /\ files[ModelPath] = <<ExpectedCheckpoint>>
        /\ Dirname(ModelPath) # <<>> => Dirname(ModelPath) \in dirs

-----------------------------------------------------------------------------
(* C17.                                                                    *)

RECURSIVE EpochPhases(_)
EpochPhases(n) ==
    IF n = 0 THEN <<>>
    ELSE EpochPhases(n - 1) \o <<"Forward", "LossComputed", "BackwardUpdate">>

\* the phases of a complete train call of n epochs
TrainPhases(n) ==
    <<"Uninitialized", "GraphBuilt", "ModelInitialized">> \o EpochPhases(n) \o <<"Checkpointed">>

IsPrefix(s, t) == Len(s) <= Len(t) /\ s = SubSeq(t, 1, Len(s))

\* train() returned to main()
TrainReturned == Ran("train") /\ result # <<>>

\* C17: a train call moves through its phases only in the order Uninitialized,
\* GraphBuilt, ModelInitialized, then exactly `epochs` repetitions of Forward,
\* LossComputed, BackwardUpdate, then Checkpointed; the per-type input
\* projections are initialized before the optimizer is created and before the
\* first forward pass; the returned loss list has exactly `epochs` entries.
C17_PhasesInOrder ==
    Ran("train") =>
        /\ IsPrefix(phases, TrainPhases(Epochs))
        /\ detector.optimizer =>
               /\ "ModelInitialized" \in Range(phases)
               /\ DOMAIN detector.node_embeddings = DOMAIN graph.x
        /\ "Forward" \in Range(phases) => detector.optimizer
        /\ TrainReturned =>
               /\ phases = TrainPhases(Epochs)
               /\ Len(result[1].metrics.losses) = Epochs
               /\ result[1].epochs = Epochs

\* a run of two epochs that went through all ten phases and returned
C17_Witness ==
    /\ Done /\ TrainReturned /\ exit_code = 0
    /\ Epochs = 2 /\ Len(phases) = 10
    /\ result[1].metrics.losses = <<"float", "float">>

-----------------------------------------------------------------------------
(* C18.                                                                    *)

\* the current training step has computed its loss
LossIsComputed == ConstructionOver /\ pc = "loss_computed"

\* the positions, in the graph's edge-type order, of the edge types whose
\* relation label contains "PRECEDES"
PrecedesPositions == {k \in DOMAIN graph.edge_types : HasPRECEDES(graph.edge_types[k][2])}

FirstPrecedesType ==
    graph.edge_types[CHOOSE k \in PrecedesPositions : \A j \in PrecedesPositions : k <= j]

\* the positions of the input edges whose relation label contains "PRECEDES"
PrecedesEdges(g) == {k \in DOMAIN g.edges : HasPRECEDES(g.edges[k].type)}

\* C18: in each training step the contrastive loss is computed from exactly
\* one edge type, the first in the graph's edge-type order (the order in which
\* the input's edges first show each type) whose relation label contains
\* "PRECEDES": its edges are the positive pairs, edges of every other edge type
\* give no pair, and there is one negative pair per edge of the selected type,
\* with the edge's source and a sampled target index in 0..(count of the target
\* type)-1.  With no such edge type there is no pair at all.
C18_LossFromFirstPrecedesType ==
    LossIsComputed =>
        IF PrecedesPositions = {}
        THEN loss.key = <<>> /\ loss.positives = <<>> /\ loss.negatives = <<>>
        ELSE LET edge_index == graph.edge_index[FirstPrecedesType]
             IN /\ loss.key = <<FirstPrecedesType>>
                /\ UniqueIds(Payload) =>
                       \E k \in PrecedesEdges(Payload) :
                           /\ \A j \in PrecedesEdges(Payload) : k <= j
                           /\ EdgeTypeOf(Payload, Payload.edges[k]) = FirstPrecedesType
                /\ Len(loss.positives) = Len(edge_index[1])
                /\ \A k \in DOMAIN loss.positives :
                       loss.positives[k] = <<edge_index[1][k], edge_index[2][k]>>
                /\ Len(loss.negatives) = Len(edge_index[1])
                /\ \A k \in DOMAIN loss.negatives :
                       /\ loss.negatives[k][1] = edge_index[1][k]
                       /\ loss.negatives[k][2] \in
                              0..(CountType(Payload.nodes, FirstPrecedesType[3]) - 1)

\* two edge types whose relations both contain "PRECEDES": the loss took the
\* first one, and sampled a negative target other than the edge's own target
C18_Witness ==
    /\ LossIsComputed /\ Cardinality(PrecedesPositions) = 2
    /\ loss.key = <<graph.edge_types[1]>>
    /\ graph.edge_types[1][2] = "STRICTLY_PRECEDES"
    /\ Len(loss.positives) = 1
    /\ loss.negatives[1][2] # loss.positives[1][2]

====
